---- MODULE Spec2Model ----
(***************************************************************************)
(* Model of analyz.py: a batch pipeline that loads security-event records, *)
(* splits them into a Windows-event table and a DNS table, scores each and *)
(* merges the two rankings.                                                *)
(*                                                                         *)
(* A Python str is a sequence of one-character strings.  A table cell is a *)
(* record [t, v]: t is the Python type of the value ("str", "int",        *)
(* "float", "nan", "ts", "nat") and v its payload.  A DataFrame is        *)
(* [columns, rows]; every row is a function from the columns to cells.     *)
(* DataFrames live in a heap, and df, win_df and dns_df are references,    *)
(* so that a write through an argument is visible to the caller.           *)
(***************************************************************************)
EXTENDS Integers, Sequences, FiniteSets, TLC

VARIABLES
    pc,            \* the statement of main() about to run, "done" or "raised"
    pandas_major,  \* major version of the pandas build that is imported
    raw,           \* the parsed JSON document handed to load_botsv1_json
    heap,          \* the DataFrame objects holding records
    df, win_df, dns_df,             \* main()'s references into the heap (0: unbound)
    dns_work,      \* suspicious_dns's working rows
    win_susp, dns_susp, combined_top,  \* the rankings of main()
    files,         \* tables written by save_tables
    charts,        \* charts written by plot_top10
    err            \* [exc, fn]: the exception that ended the run and where

vars == <<pc, pandas_major, raw, heap, df, win_df, dns_df, dns_work,
          win_susp, dns_susp, combined_top, files, charts, err>>

-----------------------------------------------------------------------------
\* Bounds of the model.

\* longest JSON document given to the loader
MaxItems == 2
\* longest table given directly to a scorer
MaxRecs == 3
\* largest repetition of one record in a block-shaped table
MaxRepeat == 7
\* most distinct names in a wide DNS table
MaxWide == 16
\* most rows handed to the aggregator by each scorer
MaxAggRows == 2

-----------------------------------------------------------------------------
\* Python str operations.

Min(S) == CHOOSE x \in S : \A y \in S : x <= y
Max(S) == CHOOSE x \in S : \A y \in S : x >= y

ascii_lowercase == <<"a","b","c","d","e","f","g","h","i","j","k","l","m","n","o","p","q","r","s","t","u","v","w","x","y","z">>   \* "abcdefghijklmnopqrstuvwxyz"
ascii_uppercase == <<"A","B","C","D","E","F","G","H","I","J","K","L","M","N","O","P","Q","R","S","T","U","V","W","X","Y","Z">>   \* "ABCDEFGHIJKLMNOPQRSTUVWXYZ"
digits == <<"0","1","2","3","4","5","6","7","8","9">>   \* "0123456789"

Chars(s) == {s[i] : i \in 1..Len(s)}
Letters == Chars(ascii_lowercase) \cup Chars(ascii_uppercase)
Digits == Chars(digits)
\* the characters str.strip() removes
Whitespace == {" ", "\t", "\n", "\r", "\f"}

lower_char(c) ==
    IF c \in Chars(ascii_uppercase)
    THEN ascii_lowercase[CHOOSE i \in 1..Len(ascii_uppercase) : ascii_uppercase[i] = c]
    ELSE c

\* str.lower()
lower(s) == [i \in 1..Len(s) |-> lower_char(s[i])]

\* str.strip(chars)
strip_chars(s, cs) ==
    LET keep == {i \in 1..Len(s) : s[i] \notin cs}
    IN  IF keep = {} THEN <<>> ELSE SubSeq(s, Min(keep), Max(keep))

\* str.strip()
strip(s) == strip_chars(s, Whitespace)

\* str.split(sep) for a one-character separator
RECURSIVE split(_, _)
split(s, sep) ==
    LET at == {i \in 1..Len(s) : s[i] = sep}
    IN  IF at = {} THEN <<s>>
        ELSE <<SubSeq(s, 1, Min(at) - 1)>> \o split(SubSeq(s, Min(at) + 1, Len(s)), sep)

\* sep.join(parts)
RECURSIVE join(_, _)
join(parts, sep) ==
    IF Len(parts) = 0 THEN <<>>
    ELSE IF Len(parts) = 1 THEN parts[1]
    ELSE parts[1] \o <<sep>> \o join(Tail(parts), sep)

\* re.search of a pattern without metacharacters
contains(s, pat) ==
    \E i \in 1..(Len(s) - Len(pat) + 1) : SubSeq(s, i, i + Len(pat) - 1) = pat

\* Series.str.count of a one-character class
count_chars(s, cs) == Cardinality({i \in 1..Len(s) : s[i] \in cs})

\* str(n) for an int n >= 0
RECURSIVE int_str(_)
int_str(n) ==
    IF n < 10 THEN <<digits[n + 1]>>
    ELSE int_str(n \div 10) \o <<digits[(n % 10) + 1]>>

-----------------------------------------------------------------------------
\* Cells and DataFrames.

StrCell(s) == [t |-> "str", v |-> s]
IntCell(n) == [t |-> "int", v |-> n]
FloatCell(n) == [t |-> "float", v |-> n]      \* the float n.0
NaN == [t |-> "nan", v |-> 0]
Timestamp(s) == [t |-> "ts", v |-> s]     \* the instant the text s denotes
NaT == [t |-> "nat", v |-> 0]

\* Series.astype(str) on one cell
astype_str(x) ==
    CASE x.t = "str" -> x.v
      [] x.t = "int" -> int_str(x.v)
      [] x.t = "float" -> int_str(x.v) \o <<".","0">>
      [] x.t = "nan" -> <<"n","a","n">>
      [] x.t = "ts" -> x.v
      [] x.t = "nat" -> <<"N","a","T">>

\* pd.DataFrame(rows) on a list of dicts: the columns are the union of the
\* keys, an absent key is NaN, and a column holding only numbers of which one
\* is absent or a float is a float64 column.
DataFrame(rows) ==
    LET cols == UNION {DOMAIN rows[i] : i \in 1..Len(rows)}
        present(c) == {rows[i][c] : i \in {j \in 1..Len(rows) : c \in DOMAIN rows[j]}}
        float64(c) == /\ \A x \in present(c) : x.t \in {"int", "float"}
                      /\ \/ \E i \in 1..Len(rows) : c \notin DOMAIN rows[i]
                         \/ \E x \in present(c) : x.t = "float"
        cell(i, c) == IF c \notin DOMAIN rows[i] THEN NaN
                      ELSE IF float64(c) THEN FloatCell(rows[i][c].v)
                      ELSE rows[i][c]
    IN  [columns |-> cols,
         rows |-> [i \in 1..Len(rows) |-> [c \in cols |-> cell(i, c)]]]

\* DataFrame.empty
empty(d) == Len(d.rows) = 0 \/ d.columns = {}

\* d[mask], mask a boolean per row, in row order
RECURSIVE select_rows(_, _)
select_rows(rows, mask) ==
    IF Len(rows) = 0 THEN <<>>
    ELSE (IF mask[1] THEN <<rows[1]>> ELSE <<>>) \o select_rows(Tail(rows), Tail(mask))

filter(d, mask) == [columns |-> d.columns, rows |-> select_rows(d.rows, mask)]

\* pd.DataFrame(columns=["type", "key", "count"])
EmptyRanking == <<>>

\* the first column found, "" standing for None
or_else_col(a, b) == IF a # "" THEN a ELSE b

\* the first name of the priority list cs that is a column of d, or "" if none
first_column(d, cs) ==
    IF \E i \in 1..Len(cs) : cs[i] \in d.columns
    THEN cs[Min({i \in 1..Len(cs) : cs[i] \in d.columns})]
    ELSE ""

\* Series.value_counts(): one row per distinct value with the number of its
\* occurrences, most frequent first, equal counts in order of first occurrence
value_counts(vals) ==
    LET keys == {vals[i] : i \in 1..Len(vals)}
        cnt(k) == Cardinality({i \in 1..Len(vals) : vals[i] = k})
        first(k) == Min({i \in 1..Len(vals) : vals[i] = k})
        before(a, b) == cnt(a) > cnt(b) \/ (cnt(a) = cnt(b) /\ first(a) < first(b))
        pos(k) == 1 + Cardinality({j \in keys : before(j, k)})
    IN  [p \in 1..Cardinality(keys) |->
            LET k == CHOOSE k \in keys : pos(k) = p
            IN  [key |-> k, count |-> cnt(k)]]

\* Series.head(n)
head(s, n) == SubSeq(s, 1, IF Len(s) < n THEN Len(s) ELSE n)

\* the values of column c of d, in row order
column(d, c) == [i \in 1..Len(d.rows) |-> d.rows[i][c]]

\* d[c] = vals
set_column(d, c, vals) ==
    [columns |-> d.columns \cup {c},
     rows |-> [i \in 1..Len(d.rows) |->
                 [k \in d.columns \cup {c} |-> IF k = c THEN vals[i] ELSE d.rows[i][k]]]]

\* raise: the exception leaves main()
raise(exc, fn) ==
    /\ pc' = "raised"
    /\ err' = [exc |-> exc, fn |-> fn]

-----------------------------------------------------------------------------
\* load_botsv1_json

\* An element of the JSON list: {"result": {...}} ("result"), a dict with
\* the fields at the top level ("dict"), or anything else ("other").
Item(kind, d) == [kind |-> kind, d |-> d]

Items ==
    { Item("result", ("source" :> StrCell(<<"W","i","n","E","v","e","n","t","L","o","g",":","S","e","c","u","r","i","t","y">>))   \* "WinEventLog:Security"
                  @@ ("EventCode" :> StrCell(<<"4","6","2","5">>))
                  @@ ("_time" :> StrCell(<<"2","0","1","6","-","0","8","-","2","4","T","1","0",":","0","0",":","0","0">>))),   \* "2016-08-24T10:00:00"
      Item("dict",   ("source" :> StrCell(<<"W","i","n","E","v","e","n","t","L","o","g",":","S","e","c","u","r","i","t","y">>))   \* "WinEventLog:Security"
                  @@ ("EventCode" :> IntCell(4688))),
      Item("result", ("source" :> StrCell(<<"W","i","n","E","v","e","n","t","L","o","g",":","S","y","s","t","e","m">>))   \* "WinEventLog:System"
                  @@ ("EventCode" :> StrCell(<<"9","9","9","9">>))),
      Item("result", ("sourcetype" :> StrCell(<<"W","i","n","E","v","e","n","t","L","o","g",":","S","e","c","u","r","i","t","y">>))   \* "WinEventLog:Security"
                  @@ ("signature_id" :> IntCell(4625))),
      Item("result", ("sourcetype" :> StrCell(<<"s","t","r","e","a","m",":","d","n","s">>))   \* "stream:dns"
                  @@ ("query" :> StrCell(<<"a",".","b",".","c",".","d",".","e",".","f",".","e","x","a","m","p","l","e",".","c","o","m">>))   \* "a.b.c.d.e.f.example.com"
                  @@ ("_time" :> StrCell(<<"y","e","s","t","e","r","d","a","y">>))),   \* "yesterday"
      Item("result", ("source" :> StrCell(<<"s","t","r","e","a","m",":","D","N","S">>))   \* "stream:DNS"
                  @@ ("Message" :> StrCell(<<"q","u","e","r","y"," ","e","x","a","m","p","l","e",".","c","o","m"," ","n","o","w">>))),   \* "query example.com now"
      Item("dict",   ("query" :> StrCell(<<"e","x","a","m","p","l","e",".","c","o","m",".">>))),   \* "example.com."
      Item("other",  <<>>) }

RECURSIVE SeqsUpTo(_, _)
SeqsUpTo(S, n) ==
    IF n = 0 THEN {<<>>}
    ELSE LET shorter == SeqsUpTo(S, n - 1)
         IN  shorter \cup {Append(s, x) : s \in {q \in shorter : Len(q) = n - 1}, x \in S}

Documents == SeqsUpTo(Items, MaxItems)

\* the loop of load_botsv1_json: the dicts kept, in order
RECURSIVE rows_of(_)
rows_of(doc) ==
    IF Len(doc) = 0 THEN <<>>
    ELSE (IF doc[1].kind \in {"result", "dict"} THEN <<doc[1].d>> ELSE <<>>)
         \o rows_of(Tail(doc))

load_botsv1_json ==
    /\ pc = "load"
    /\ \E doc \in Documents :
         /\ raw' = doc
         /\ heap' = Append(heap, DataFrame(rows_of(doc)))
    /\ df' = Len(heap) + 1
    /\ pc' = "normalize_time"
    /\ UNCHANGED <<pandas_major, win_df, dns_df, dns_work, win_susp, dns_susp,
                   combined_top, files, charts, err>>

-----------------------------------------------------------------------------
\* normalize_time

\* whether pd.to_datetime reads the text as a time: here, a text that
\* begins with a date YYYY-MM-DD
parses_as_time(s) ==
    /\ Len(s) >= 10
    /\ \A i \in {1, 2, 3, 4, 6, 7, 9, 10} : s[i] \in Digits
    /\ s[5] = "-" /\ s[8] = "-"

\* pd.to_datetime(x, errors="coerce") on one cell
to_datetime(x) ==
    IF x.t = "ts" THEN x
    ELSE IF x.t = "str" /\ parses_as_time(x.v) THEN Timestamp(x.v)
    ELSE NaT

\* time_normalized with the assignment made on a copy: the table is as it was
time_normalized_on_copy(d) == d

\* the table after df["_time"] = pd.to_datetime(df["_time"], errors="coerce")
time_normalized(d) ==
    IF "_time" \in d.columns
    THEN set_column(d, "_time", [i \in 1..Len(d.rows) |-> to_datetime(d.rows[i]["_time"])])
    ELSE d

\* the assignment writes into the caller's table and the same table is returned
normalize_time ==
    /\ pc = "normalize_time"
    /\ heap' = [heap EXCEPT ![df] = time_normalized(heap[df])]
    /\ df' = df
    /\ pc' = "split_logs"
    /\ UNCHANGED <<pandas_major, raw, win_df, dns_df, dns_work, win_susp, dns_susp,
                   combined_top, files, charts, err>>

-----------------------------------------------------------------------------
\* split_logs

possible_dns_cols == {"query", "query_name", "domain", "dest_dns", "dns_query"}

\* Series.astype(str).str.contains(pat, case=..., na=False) of column c
str_contains(d, c, pat, case) ==
    [i \in 1..Len(d.rows) |->
        IF case THEN contains(astype_str(d.rows[i][c]), pat)
        ELSE contains(lower(astype_str(d.rows[i][c])), lower(pat))]

\* A row selector is either a boolean Series (one flag per row) or, when no
\* column was found, a bare Python bool.
Series(mask) == [series |-> TRUE, mask |-> mask, value |-> FALSE]
Bool(b) == [series |-> FALSE, mask |-> <<>>, value |-> b]

is_win(d) ==
    IF "source" \in d.columns
    THEN Series(str_contains(d, "source", <<"W","i","n","E","v","e","n","t","L","o","g">>, TRUE))   \* "WinEventLog"
    ELSE IF "sourcetype" \in d.columns
    THEN Series(str_contains(d, "sourcetype", <<"W","i","n","E","v","e","n","t","L","o","g">>, TRUE))   \* "WinEventLog"
    ELSE Bool(FALSE)

is_dns(d) ==
    IF "sourcetype" \in d.columns
    THEN Series(str_contains(d, "sourcetype", <<"d","n","s">>, FALSE))
    ELSE IF "source" \in d.columns
    THEN Series(str_contains(d, "source", <<"d","n","s">>, FALSE))
    ELSE Bool(d.columns \cap possible_dns_cols # {})

\* df[key]: a boolean Series selects rows; a bare bool is looked up as a
\* column label, and no column has that label
getitem_raises(key) == ~key.series

split_logs ==
    /\ pc = "split_logs"
    /\ LET d == heap[df]
       IN  IF getitem_raises(is_win(d)) \/ getitem_raises(is_dns(d))
           THEN /\ raise("KeyError", "split_logs")
                /\ UNCHANGED <<heap, win_df, dns_df>>
           ELSE /\ heap' = heap \o <<filter(d, is_win(d).mask), filter(d, is_dns(d).mask)>>
                /\ win_df' = Len(heap) + 1
                /\ dns_df' = Len(heap) + 2
                /\ pc' = "suspicious_wineventlog"
                /\ UNCHANGED err
    /\ UNCHANGED <<pandas_major, raw, df, dns_work, win_susp, dns_susp,
                   combined_top, files, charts>>

-----------------------------------------------------------------------------
\* suspicious_wineventlog

Row(type, key, count) == [type |-> type, key |-> key, count |-> count]

\* rows kept by head(10)
TOP_N == 10

suspicious_ids ==
       (<<"4","6","2","5">> :> <<"F","a","i","l","e","d"," ","l","o","g","o","n"," ","(","4","6","2","5",")">>)   \* "Failed logon (4625)"
    @@ (<<"4","6","2","4">> :> <<"S","u","c","c","e","s","s","f","u","l"," ","l","o","g","o","n"," ","(","4","6","2","4",")"," ","-"," ","c","h","e","c","k"," ","a","n","o","m","a","l","i","e","s">>)   \* "Successful logon (4624) - check anomalies"
    @@ (<<"4","6","4","8">> :> <<"L","o","g","o","n"," ","w","i","t","h"," ","e","x","p","l","i","c","i","t"," ","c","r","e","d","s"," ","(","4","6","4","8",")">>)   \* "Logon with explicit creds (4648)"
    @@ (<<"4","6","7","2">> :> <<"S","p","e","c","i","a","l"," ","p","r","i","v","i","l","e","g","e","s"," ","a","s","s","i","g","n","e","d"," ","(","4","6","7","2",")">>)   \* "Special privileges assigned (4672)"
    @@ (<<"4","7","2","0">> :> <<"U","s","e","r"," ","a","c","c","o","u","n","t"," ","c","r","e","a","t","e","d"," ","(","4","7","2","0",")">>)   \* "User account created (4720)"
    @@ (<<"4","7","2","2">> :> <<"U","s","e","r"," ","e","n","a","b","l","e","d"," ","(","4","7","2","2",")">>)   \* "User enabled (4722)"
    @@ (<<"4","7","2","3">> :> <<"P","a","s","s","w","o","r","d"," ","c","h","a","n","g","e"," ","a","t","t","e","m","p","t"," ","(","4","7","2","3",")">>)   \* "Password change attempt (4723)"
    @@ (<<"4","7","2","4">> :> <<"P","a","s","s","w","o","r","d"," ","r","e","s","e","t"," ","a","t","t","e","m","p","t"," ","(","4","7","2","4",")">>)   \* "Password reset attempt (4724)"
    @@ (<<"4","7","2","8">> :> <<"A","d","d","e","d"," ","t","o"," ","p","r","i","v","i","l","e","g","e","d"," ","g","r","o","u","p"," ","(","4","7","2","8",")">>)   \* "Added to privileged group (4728)"
    @@ (<<"4","7","3","2">> :> <<"A","d","d","e","d"," ","t","o"," ","l","o","c","a","l"," ","g","r","o","u","p"," ","(","4","7","3","2",")">>)   \* "Added to local group (4732)"
    @@ (<<"4","7","5","6">> :> <<"A","d","d","e","d"," ","t","o"," ","u","n","i","v","e","r","s","a","l"," ","g","r","o","u","p"," ","(","4","7","5","6",")">>)   \* "Added to universal group (4756)"
    @@ (<<"4","6","8","8">> :> <<"P","r","o","c","e","s","s"," ","c","r","e","a","t","e","d"," ","(","4","6","8","8",")">>)   \* "Process created (4688)"
    @@ (<<"4","6","9","7">> :> <<"S","e","r","v","i","c","e"," ","i","n","s","t","a","l","l","e","d"," ","(","4","6","9","7",")">>)   \* "Service installed (4697)"
    @@ (<<"7","0","4","5">> :> <<"S","e","r","v","i","c","e"," ","c","r","e","a","t","e","d"," ","(","7","0","4","5",")">>)   \* "Service created (7045)"
    @@ (<<"4","6","9","8">> :> <<"S","c","h","e","d","u","l","e","d"," ","t","a","s","k"," ","c","r","e","a","t","e","d"," ","(","4","6","9","8",")">>)   \* "Scheduled task created (4698)"
    @@ (<<"4","6","9","9">> :> <<"S","c","h","e","d","u","l","e","d"," ","t","a","s","k"," ","d","e","l","e","t","e","d"," ","(","4","6","9","9",")">>)   \* "Scheduled task deleted (4699)"
    @@ (<<"1","1","0","2">> :> <<"A","u","d","i","t"," ","l","o","g"," ","c","l","e","a","r","e","d"," ","(","1","1","0","2",")">>)   \* "Audit log cleared (1102)"
    @@ (<<"4","7","1","9">> :> <<"A","u","d","i","t"," ","p","o","l","i","c","y"," ","c","h","a","n","g","e","d"," ","(","4","7","1","9",")">>)   \* "Audit policy changed (4719)"
    @@ (<<"4","7","0","3">> :> <<"U","s","e","r"," ","r","i","g","h","t"," ","a","d","j","u","s","t","e","d"," ","(","4","7","0","3",")">>)   \* "User right adjusted (4703)"

\* the first identifier column of the table, "" for None
event_col(d) == first_column(d, <<"EventCode", "signature_id", "EventID", "event_id">>)

\* win_df[event_col].astype(str)
event_texts(d) == [i \in 1..Len(d.rows) |-> StrCell(astype_str(d.rows[i][event_col(d)]))]

\* the texts of the identifier column, as the scorer reads them back
event_ids(d) == [i \in 1..Len(d.rows) |-> d.rows[i][event_col(d)].v]

\* flagged without the isin filter: every identifier is kept
flagged_unfiltered(ids) == ids

\* win_df[win_df[event_col].isin(suspicious_ids.keys())][event_col]
flagged(ids) == select_rows(ids, [i \in 1..Len(ids) |-> ids[i] \in DOMAIN suspicious_ids])

\* suspicious_ids.get(str(x), str(x))
label(x) == IF x \in DOMAIN suspicious_ids THEN suspicious_ids[x] ELSE x

\* a ranking: the rows of a value_counts under one type
ranking(type, vc) == [i \in 1..Len(vc) |-> Row(type, vc[i].key, vc[i].count)]

\* cnt["key"].map(...)
with_labels(rows) == [i \in 1..Len(rows) |-> Row(rows[i].type, label(rows[i].key), rows[i].count)]

\* the ranking built from the flagged identifiers
cnt(ids) == with_labels(ranking(<<"W","i","n","E","v","e","n","t","L","o","g">>, value_counts(flagged(ids))))   \* "WinEventLog"

\* value_counts().head(10).reset_index().rename(columns={"index": "key",
\* event_col: "count"}): the column names of the frame.  Before pandas 2
\* reset_index names the columns "index" and event_col; from pandas 2 on it
\* names them event_col and "count", and the rename makes both "count".
top_columns(major) ==
    IF major < 2 THEN {"key", "count"} ELSE {"count"}

\* the fallback ranking, the most frequent identifiers as they are
top(ids) == ranking(<<"W","i","n","E","v","e","n","t","L","o","g"," ","(","t","o","p"," ","b","y"," ","f","r","e","q","u","e","n","c","y",")">>, head(value_counts(ids), TOP_N))   \* "WinEventLog (top by frequency)"

\* The identifier column is overwritten in the caller's table, and the
\* ranking is built from the overwritten column.
suspicious_wineventlog ==
    /\ pc = "suspicious_wineventlog"
    /\ IF event_col(heap[win_df]) = "" \/ empty(heap[win_df])
       THEN /\ win_susp' = EmptyRanking
            /\ pc' = "suspicious_dns"
            /\ UNCHANGED <<heap, err>>
       ELSE /\ heap' = [heap EXCEPT ![win_df] =
                           set_column(@, event_col(@), event_texts(@))]
            /\ IF Len(flagged(event_ids(heap'[win_df]))) # 0
               THEN /\ win_susp' = cnt(event_ids(heap'[win_df]))
                    /\ pc' = "suspicious_dns"
                    /\ UNCHANGED err
               ELSE IF "key" \in top_columns(pandas_major)
               THEN /\ win_susp' = top(event_ids(heap'[win_df]))
                    /\ pc' = "suspicious_dns"
                    /\ UNCHANGED err
               ELSE /\ raise("KeyError", "suspicious_wineventlog")
                    /\ UNCHANGED win_susp
    /\ UNCHANGED <<pandas_major, raw, df, win_df, dns_df, dns_work, dns_susp,
                   combined_top, files, charts>>

-----------------------------------------------------------------------------
\* extract_domain

\* the return statements, given q after strip and lower and its parts
last_two(q, parts) ==
    IF Len(parts) <= 2 THEN q
    ELSE join(SubSeq(parts, Len(parts) - 1, Len(parts)), ".")

\* stripped without the strip(".")
stripped_not(q) == lower(q)

\* q.strip(".").lower()
stripped(q) == lower(strip_chars(q, {"."}))

extract_domain(q) ==
    IF Len(q) = 0 THEN <<>>
    ELSE last_two(stripped(q), split(stripped(q), "."))

-----------------------------------------------------------------------------
\* suspicious_dns

\* longest label the pattern accepts
LABEL_MAX == 63
\* least number of letters in the last label of the pattern
TLD_MIN == 2
\* thresholds of the "weird subdomain" heuristics
LEN_MIN == 40
DOTS_MIN == 5
DIGITS_MIN == 10
\* a domain seen at most this many times is rare
RARE_MAX == 2

label_chars == Letters \cup Digits \cup {"-"}

\* length of the longest run of characters of cs that starts at position p
run(s, p, cs) ==
    LET stop == {i \in p..Len(s) : s[i] \notin cs}
    IN  IF stop = {} THEN Len(s) - p + 1 ELSE Min(stop) - p

\* the lengths a label [a-zA-Z0-9\-]{1,63} can take at position p
label_lengths(s, p) ==
    1..(IF run(s, p, label_chars) < LABEL_MAX THEN run(s, p, label_chars) ELSE LABEL_MAX)

\* Matching positions: the position after the match, 0 for no match.
\* tries is a set of <<length tried, position reached>>: the greedy matcher
\* keeps the longest length from which the rest of the pattern matched
greedy(tries) ==
    IF \A e \in tries : e[2] = 0 THEN 0
    ELSE (CHOOSE e \in tries : e[2] # 0 /\ \A f \in tries : f[2] # 0 => e[1] >= f[1])[2]

\* the first alternative that matches
or_else(a, b) == IF a # 0 THEN a ELSE b

\* \.[a-zA-Z]{2,} at position p
tld_end(s, p) ==
    IF p <= Len(s) /\ s[p] = "." /\ run(s, p + 1, Letters) >= TLD_MIN
    THEN p + 1 + run(s, p + 1, Letters)
    ELSE 0

\* (?:\.[a-zA-Z0-9\-]{1,63})+\.[a-zA-Z]{2,} at position p, as the
\* backtracking matcher takes it: the longest label first, and another
\* repetition of the group before the last label
RECURSIVE groups_end(_, _)
groups_end(s, p) ==
    IF p > Len(s) \/ s[p] # "." THEN 0
    ELSE greedy({<<m, or_else(groups_end(s, p + 1 + m), tld_end(s, p + 1 + m))>> :
                    m \in label_lengths(s, p + 1)})

\* the whole pattern at position i; min_groups is the least number of
\* repetitions of the group (?:...), 1 for the quantifier + of the source
match_end(s, i, min_groups) ==
    greedy({<<n, IF min_groups > 0 THEN groups_end(s, i + n)
                 ELSE or_else(groups_end(s, i + n), tld_end(s, i + n))>> :
               n \in label_lengths(s, i)})

\* the quantifier of the group in the pattern of the source
MIN_GROUPS == 1

\* the leftmost of the matches found, as <<text>>, or <<>> (NaN) for none;
\* ends is a set of <<start, position after the match or 0>>
leftmost(s, ends) ==
    IF \A e \in ends : e[2] = 0 THEN <<>>
    ELSE LET e == CHOOSE e \in ends : e[2] # 0 /\ \A f \in ends : f[2] # 0 => e[1] <= f[1]
         IN  <<SubSeq(s, e[1], e[2] - 1)>>

\* Series.str.extract(pattern, expand=False) on one text
domain_like(s) == leftmost(s, {<<i, match_end(s, i, MIN_GROUPS)>> : i \in 1..Len(s)})

\* Series.fillna on one value
fillna(m, s) == IF m = <<>> THEN s ELSE m[1]

\* domain_like.fillna(s).str.strip().str.lower() on one text
qname(s) == lower(strip(fillna(domain_like(s), s)))

\* the first query-name column, then the first free-text column, "" for None
query_col(d) ==
    or_else_col(first_column(d, <<"query", "query_name", "dns_query", "dest_dns",
                                  "Domain", "domain", "QueryName">>),
                first_column(d, <<"Message", "_raw", "body">>))

\* the derived columns of dns_work for one record
work_row(q) ==
    [qname |-> q,
     domain |-> extract_domain(q),
     qname_len |-> Len(q),
     dots |-> count_chars(q, {"."}),
     digits |-> count_chars(q, Digits)]

work_rows(d) ==
    [i \in 1..Len(d.rows) |-> work_row(qname(astype_str(d.rows[i][query_col(d)])))]

\* the values of one derived column
work_column(w, c) == [i \in 1..Len(w) |-> w[i][c]]

\* suspicious_q with the three conditions joined by "and"
suspicious_q_all_three(w) ==
    select_rows(w, [i \in 1..Len(w) |->
        w[i].qname_len >= LEN_MIN /\ w[i].dots >= DOTS_MIN /\ w[i].digits >= DIGITS_MIN])

\* the rows whose name is long, deep or full of digits
suspicious_q(w) ==
    select_rows(w, [i \in 1..Len(w) |->
        w[i].qname_len >= LEN_MIN \/ w[i].dots >= DOTS_MIN \/ w[i].digits >= DIGITS_MIN])

\* rare_keys with the threshold one too high
rare_keys_up_to_three(domain_counts) ==
    {domain_counts[i].key :
        i \in {j \in 1..Len(domain_counts) : domain_counts[j].count <= RARE_MAX + 1}}

\* the keys of the counts that are at most RARE_MAX
rare_keys(domain_counts) ==
    {domain_counts[i].key :
        i \in {j \in 1..Len(domain_counts) : domain_counts[j].count <= RARE_MAX}}

\* the domains seen at most RARE_MAX times in the whole table
rare_domains(w) == rare_keys(value_counts(work_column(w, "domain")))

\* the rows whose domain is one of rare
rare_hits(w, rare) == select_rows(w, [i \in 1..Len(w) |-> w[i].domain \in rare])

rare_top(w) ==
    ranking(<<"D","N","S"," ","(","r","a","r","e"," ","d","o","m","a","i","n","s",")">>,   \* "DNS (rare domains)"
            head(value_counts(work_column(rare_hits(w, rare_domains(w)), "domain")), TOP_N))

weird_top(w) ==
    ranking(<<"D","N","S"," ","(","w","e","i","r","d"," ","s","u","b","d","o","m","a","i","n","s",")">>,   \* "DNS (weird subdomains)"
            head(value_counts(work_column(suspicious_q(w), "qname")), TOP_N))

\* dns_work is a copy of the argument with the derived columns added: the
\* caller's table is left as it was
suspicious_dns ==
    /\ pc = "suspicious_dns"
    /\ IF empty(heap[dns_df]) \/ query_col(heap[dns_df]) = ""
       THEN /\ dns_work' = <<>>
            /\ dns_susp' = EmptyRanking
       ELSE /\ dns_work' = work_rows(heap[dns_df])
            /\ dns_susp' = rare_top(dns_work') \o weird_top(dns_work')
    /\ pc' = "aggregate"
    /\ UNCHANGED <<pandas_major, raw, heap, df, win_df, dns_df, win_susp,
                   combined_top, files, charts, err>>

-----------------------------------------------------------------------------
\* main: the aggregation, the tables, the charts

RECURSIVE total_rows(_, _, _)
\* total with count() in place of sum(): the number of rows of the group
total_rows(rows, type, key) ==
    IF Len(rows) = 0 THEN 0
    ELSE (IF rows[1].type = type /\ rows[1].key = key THEN 1 ELSE 0)
         + total_rows(Tail(rows), type, key)

RECURSIVE total(_, _, _)
\* the sum of the counts of the rows of one (type, key) group
total(rows, type, key) ==
    IF Len(rows) = 0 THEN 0
    ELSE (IF rows[1].type = type /\ rows[1].key = key THEN rows[1].count ELSE 0)
         + total(Tail(rows), type, key)

\* combined.groupby(["type", "key"], as_index=False)["count"].sum()
grouped(rows) ==
    {Row(rows[i].type, rows[i].key, total(rows, rows[i].type, rows[i].key)) :
        i \in 1..Len(rows)}

\* sort_values("count", ascending=False): the sort is not stable, so rows
\* with equal counts come out in any order
RECURSIVE sort_values(_)
sort_values(G) ==
    IF G = {} THEN {<<>>}
    ELSE UNION {{<<g>> \o s : s \in sort_values(G \ {g})} :
                   g \in {x \in G : \A y \in G : x.count >= y.count}}

aggregate ==
    /\ pc = "aggregate"
    /\ combined_top' \in sort_values(grouped(win_susp \o dns_susp))
    /\ pc' = "save_tables"
    /\ UNCHANGED <<pandas_major, raw, heap, df, win_df, dns_df, dns_work, win_susp,
                   dns_susp, files, charts, err>>

save_tables ==
    /\ pc = "save_tables"
    /\ files' = {[file |-> "win_suspicious_top.csv", rows |-> win_susp],
                 [file |-> "dns_suspicious_top.csv", rows |-> dns_susp],
                 [file |-> "combined_top.csv", rows |-> combined_top]}
    /\ pc' = "plot_win"
    /\ UNCHANGED <<pandas_major, raw, heap, df, win_df, dns_df, dns_work, win_susp,
                   dns_susp, combined_top, charts, err>>

\* plot_top10(df, title, filename): nothing for an empty table, otherwise a
\* chart of at most TOP_N bars
plot_top10 ==
    /\ pc \in {"plot_win", "plot_dns", "plot_combined"}
    /\ LET table == CASE pc = "plot_win" -> win_susp
                      [] pc = "plot_dns" -> dns_susp
                      [] pc = "plot_combined" -> combined_top
           filename == CASE pc = "plot_win" -> "win_top10.png"
                         [] pc = "plot_dns" -> "dns_top10.png"
                         [] pc = "plot_combined" -> "combined_top10.png"
       IN  charts' = IF Len(table) = 0 THEN charts
                     ELSE charts \cup {[file |-> filename, bars |-> Len(head(table, TOP_N))]}
    /\ pc' = CASE pc = "plot_win" -> "plot_dns"
               [] pc = "plot_dns" -> "plot_combined"
               [] pc = "plot_combined" -> "print"
    /\ UNCHANGED <<pandas_major, raw, heap, df, win_df, dns_df, dns_work, win_susp,
                   dns_susp, combined_top, files, err>>

\* print("Done! Files saved to ./output")
print_done ==
    /\ pc = "print"
    /\ pc' = "done"
    /\ UNCHANGED <<pandas_major, raw, heap, df, win_df, dns_df, dns_work, win_susp,
                   dns_susp, combined_top, files, charts, err>>

-----------------------------------------------------------------------------
\* The run of main() on every document of Documents.

NoError == [exc |-> "none", fn |-> "none"]

Init ==
    /\ pc = "load"
    /\ pandas_major \in {1, 2}
    /\ raw = <<>>
    /\ heap = <<>>
    /\ df = 0 /\ win_df = 0 /\ dns_df = 0
    /\ dns_work = <<>>
    /\ win_susp = <<>> /\ dns_susp = <<>> /\ combined_top = <<>>
    /\ files = {}
    /\ charts = {}
    /\ err = NoError

Next ==
    \/ load_botsv1_json
    \/ normalize_time
    \/ split_logs
    \/ suspicious_wineventlog
    \/ suspicious_dns
    \/ aggregate
    \/ save_tables
    \/ plot_top10
    \/ print_done

Spec == Init /\ [][Next]_vars

-----------------------------------------------------------------------------
\* Tables given directly to one component.

repeat(x, n) == [i \in 1..n |-> x]

RECURSIVE flatten(_)
flatten(ss) == IF Len(ss) = 0 THEN <<>> ELSE ss[1] \o flatten(Tail(ss))

\* names[1..k], the i-th repeated lo + (i mod (hi - lo + 1)) times
wide(names, k, lo, hi) ==
    flatten([i \in 1..k |-> repeat(names[i], lo + (i % (hi - lo + 1)))])

WinRecord(col, x) == ("source" :> StrCell(<<"W","i","n","E","v","e","n","t","L","o","g",":","S","e","c","u","r","i","t","y">>)) @@ (col :> x)   \* "WinEventLog:Security"

WinPool ==
    { WinRecord("EventCode", StrCell(<<"4","6","2","5">>)),
      WinRecord("EventCode", IntCell(4688)),
      WinRecord("EventCode", StrCell(<<"4","6","8","8">>)),
      WinRecord("EventCode", StrCell(<<"9","9","9","9">>)),
      WinRecord("EventCode", IntCell(8888)),
      WinRecord("signature_id", IntCell(4625)),
      ("source" :> StrCell(<<"W","i","n","E","v","e","n","t","L","o","g",":","S","y","s","t","e","m">>)) }   \* "WinEventLog:System"

catalog_keys == <<<<"4","6","2","5">>,
                 <<"4","6","2","4">>,
                 <<"4","6","4","8">>,
                 <<"4","6","7","2">>,
                 <<"4","7","2","0">>,
                 <<"4","7","2","2">>,
                 <<"4","7","2","3">>,
                 <<"4","7","2","4">>,
                 <<"4","7","2","8">>,
                 <<"4","7","3","2">>,
                 <<"4","7","5","6">>,
                 <<"4","6","8","8">>,
                 <<"4","6","9","7">>,
                 <<"7","0","4","5">>,
                 <<"4","6","9","8">>,
                 <<"4","6","9","9">>,
                 <<"1","1","0","2">>,
                 <<"4","7","1","9">>,
                 <<"4","7","0","3">>>>

WinBlocks ==
    {repeat(WinRecord("EventCode", StrCell(p[1])), i)
        \o repeat(WinRecord("EventCode", StrCell(p[2])), j) :
        p \in {<<<<"4","6","2","5">>, <<"4","6","8","8">>>>, <<<<"9","9","9","9">>, <<"8","8","8","8">>>>, <<<<"1","1","0","2">>, <<"9","9","9","9">>>>},
        i \in 0..MaxRepeat, j \in 0..MaxRepeat}

WinWide ==
    {wide([i \in 1..MaxWide |-> WinRecord("EventCode", IntCell(9000 + i))], k, lo, hi) :
        k \in 0..MaxWide, lo \in 1..2, hi \in 2..3}
    \cup
    {wide([i \in 1..MaxWide |-> WinRecord("EventID", StrCell(catalog_keys[i]))], k, lo, hi)
        \o repeat(WinRecord("EventID", StrCell(<<"9","9","9","9">>)), hi) :
        k \in 0..MaxWide, lo \in 1..2, hi \in 2..3}

WinTables == SeqsUpTo(WinPool, MaxRecs) \cup WinBlocks \cup WinWide

InitWin ==
    /\ pc = "suspicious_wineventlog"
    /\ pandas_major \in {1, 2}
    /\ raw = <<>>
    /\ \E t \in WinTables : heap = <<DataFrame(t)>>
    /\ df = 0 /\ win_df = 1 /\ dns_df = 0
    /\ dns_work = <<>>
    /\ win_susp = <<>> /\ dns_susp = <<>> /\ combined_top = <<>>
    /\ files = {}
    /\ charts = {}
    /\ err = NoError

NextWin == suspicious_wineventlog

SpecWin == InitWin /\ [][NextWin]_vars

DnsRecord(col, s) == ("sourcetype" :> StrCell(<<"s","t","r","e","a","m",":","d","n","s">>)) @@ (col :> StrCell(s))   \* "stream:dns"

DnsPool ==
    { DnsRecord("query", <<"a",".","b",".","c",".","d",".","e",".","f",".","e","x","a","m","p","l","e",".","c","o","m">>),   \* "a.b.c.d.e.f.example.com"
      DnsRecord("query", <<"w","w","w",".","e","x","a","m","p","l","e",".","c","o","m">>),   \* "www.example.com"
      DnsRecord("query", <<"e","x","a","m","p","l","e",".","c","o","m">>),   \* "example.com"
      DnsRecord("query", <<"e","x","a","m","p","l","e",".","c","o","m",".">>),   \* "example.com."
      DnsRecord("query", <<"M","a","i","l",".","T","e","s","t",".","O","R","G">>),   \* "Mail.Test.ORG"
      DnsRecord("Message", <<"q","u","e","r","y"," ","e","x","a","m","p","l","e",".","c","o","m"," ","n","o","w">>),   \* "query example.com now"
      ("sourcetype" :> StrCell(<<"s","t","r","e","a","m",":","d","n","s">>)) }   \* "stream:dns"

\* texts that meet or just miss one threshold, or one clause of the pattern
DnsTexts ==
    { <<"a",".","b",".","c",".","d",".","e",".","f",".","e","x","a","m","p","l","e",".","c","o","m">>,   \* "a.b.c.d.e.f.example.com"
      <<"a",".","b",".","c",".","d",".","e","x",".","c","o","m">>,   \* "a.b.c.d.ex.com"
      <<"a",".","b",".","c",".","e","x",".","c","o","m">>,   \* "a.b.c.ex.com"
      <<"1","2","3","4","5","6","7","8","9","0",".","e","x","a","m","p","l","e",".","c","o","m">>,   \* "1234567890.example.com"
      <<"1","2","3","4","5","6","7","8","9",".","e","x","a","m","p","l","e",".","c","o","m">>,   \* "123456789.example.com"
      repeat("a", 36) \o <<".","c","o","m">>,
      repeat("a", 35) \o <<".","c","o","m">>,
      repeat("a", 64) \o <<".","b",".","c","o","m">>,   \* ".b.com"
      <<"l","o","o","k","u","p"," ","o","f"," ","W","W","W",".","E","x","a","m","p","l","e",".","C","O","M"," ","f","a","i","l","e","d">>,   \* "lookup of WWW.Example.COM failed"
      <<"q","u","e","r","y"," ","e","x","a","m","p","l","e",".","c","o","m"," ","n","o","w">>,   \* "query example.com now"
      <<" "," ","E","x","a","m","p","l","e",".","c","o","m"," "," ">>,   \* "  Example.com  "
      <<"e","x","a","m","p","l","e",".","c","o","m",".">>,   \* "example.com."
      <<".","c","o","m">>,
      <<".",".","a",".","b",".","c",".",".">>,   \* "..a.b.c.."
      <<"a",".",".","b">>,
      <<"w","w","w",".","e","x","a","m","p","l","e",".","c","0","m">>,   \* "www.example.c0m"
      <<"h","o","s","t","-","1",".","e","x","a","m","p","l","e",".","c","o",".","u","k">>,   \* "host-1.example.co.uk"
      <<"l","o","c","a","l","h","o","s","t">>,   \* "localhost"
      <<>> }

DnsSingles ==
    {<<DnsRecord(c, s)>> : c \in {"query", "_raw"}, s \in DnsTexts}
    \cup {<<DnsRecord("qname", s)>> : s \in {<<"w","w","w",".","e","x","a","m","p","l","e",".","c","o","m">>}}   \* "www.example.com"

wide_name(i) == <<"a",".","b",".","c",".","d",".","w">> \o int_str(i) \o <<".","h","o","s","t">> \o int_str(i) \o <<".","c","o","m">>   \* "a.b.c.d.w"

DnsWide ==
    {wide([i \in 1..MaxWide |-> DnsRecord("query", wide_name(i))], k, r[1], r[2]) :
        k \in 0..MaxWide, r \in {q \in (1..3) \X (1..3) : q[1] <= q[2]}}

DnsTables == SeqsUpTo(DnsPool, MaxRecs) \cup DnsSingles \cup DnsWide

InitDns ==
    /\ pc = "suspicious_dns"
    /\ pandas_major \in {1, 2}
    /\ raw = <<>>
    /\ \E t \in DnsTables : heap = <<DataFrame(t)>>
    /\ df = 0 /\ win_df = 0 /\ dns_df = 1
    /\ dns_work = <<>>
    /\ win_susp = <<>> /\ dns_susp = <<>> /\ combined_top = <<>>
    /\ files = {}
    /\ charts = {}
    /\ err = NoError

NextDns == suspicious_dns

SpecDns == InitDns /\ [][NextDns]_vars

AggRows ==
    { Row(<<"W","i","n","E","v","e","n","t","L","o","g">>, <<"X">>, 3),   \* "WinEventLog"
      Row(<<"W","i","n","E","v","e","n","t","L","o","g">>, <<"X">>, 1),   \* "WinEventLog"
      Row(<<"D","N","S"," ","(","r","a","r","e"," ","d","o","m","a","i","n","s",")">>, <<"Y">>, 2),   \* "DNS (rare domains)"
      Row(<<"D","N","S"," ","(","w","e","i","r","d"," ","s","u","b","d","o","m","a","i","n","s",")">>, <<"Y">>, 2),   \* "DNS (weird subdomains)"
      Row(<<"D","N","S"," ","(","r","a","r","e"," ","d","o","m","a","i","n","s",")">>, <<"X">>, 1) }   \* "DNS (rare domains)"

InitAgg ==
    /\ pc = "aggregate"
    /\ pandas_major \in {1, 2}
    /\ raw = <<>>
    /\ heap = <<>>
    /\ df = 0 /\ win_df = 0 /\ dns_df = 0
    /\ dns_work = <<>>
    /\ win_susp \in SeqsUpTo(AggRows, MaxAggRows)
    /\ dns_susp \in SeqsUpTo(AggRows, MaxAggRows)
    /\ combined_top = <<>>
    /\ files = {}
    /\ charts = {}
    /\ err = NoError

NextAgg == aggregate

SpecAgg == InitAgg /\ [][NextAgg]_vars

-----------------------------------------------------------------------------
\* Properties of split_logs and of the whole run (checked under Spec).

RECURSIVE IsSubsequence(_, _)
IsSubsequence(a, b) ==
    IF Len(a) = 0 THEN TRUE
    ELSE IF Len(b) = 0 THEN FALSE
    ELSE IF a[1] = b[1] THEN IsSubsequence(Tail(a), Tail(b))
    ELSE IsSubsequence(a, Tail(b))

\* C1: for every table, split_logs returns without raising, and each of the
\* two tables it returns holds a subsequence of the rows of its argument in
\* their order.
C1_SplitLogsNeverRaises ==
    /\ err.fn # "split_logs"
    /\ pc = "suspicious_wineventlog" =>
          /\ IsSubsequence(heap[win_df].rows, heap[df].rows)
          /\ IsSubsequence(heap[dns_df].rows, heap[df].rows)

\* C2: for every loaded document the run of main() goes through every stage
\* and reaches its final message: no stage ends the run with an exception,
\* and at the end the three tables are written and a chart exists exactly
\* for the tables that have rows.
C2_RunReachesDone ==
    /\ pc # "raised"
    /\ pc = "done" =>
          /\ Cardinality(files) = 3
          /\ \A c \in charts : c.bars >= 1
          /\ (win_susp = <<>>) <=> ~\E c \in charts : c.file = "win_top10.png"
          /\ (dns_susp = <<>>) <=> ~\E c \in charts : c.file = "dns_top10.png"

SameButColumn(d, e, c) ==
    /\ e.columns = d.columns
    /\ Len(e.rows) = Len(d.rows)
    /\ \A i \in 1..Len(d.rows) : \A k \in d.columns \ {c} : e.rows[i][k] = d.rows[i][k]

\* the text of a cell, by type
TextOf(x) ==
    IF x.t = "int" THEN int_str(x.v)
    ELSE IF x.t = "float" THEN int_str(x.v) \o <<".", "0">>
    ELSE IF x.t = "nan" THEN <<"n", "a", "n">>
    ELSE x.v

-----------------------------------------------------------------------------
\* Properties of suspicious_wineventlog (checked under SpecWin).

\* the scorer has run on a table with rows and an identifier column
WinScored ==
    /\ pc # "suspicious_wineventlog"
    /\ event_col(heap[win_df]) # ""
    /\ Len(heap[win_df].rows) > 0

\* the identifiers of the table, as text
WinIds == [i \in 1..Len(heap[win_df].rows) |->
              TextOf(heap[win_df].rows[i][event_col(heap[win_df])])]

Occurrences(vals, x) == Cardinality({i \in 1..Len(vals) : vals[i] = x})

\* every value of vals that is in wanted is a key of rows, or rows is full
\* (10 rows) and none of its counts is below the count of that value
TopTen(rows, vals, wanted) ==
    /\ Len(rows) <= 10
    /\ \A x \in wanted :
          \/ \E j \in 1..Len(rows) : rows[j].key = x
          \/ /\ Len(rows) = 10
             /\ \A j \in 1..Len(rows) : rows[j].count >= Occurrences(vals, x)

Descending(rows) == \A j \in 1..(Len(rows) - 1) : rows[j].count >= rows[j + 1].count

CatalogPresent == {c \in DOMAIN suspicious_ids : Occurrences(WinIds, c) > 0}

C4_FallbackRanking ==
    (WinScored /\ CatalogPresent = {}) =>
        /\ pc = "suspicious_dns"
        /\ \A j \in 1..Len(win_susp) :
              /\ win_susp[j].type = <<"W","i","n","E","v","e","n","t","L","o","g"," ","(","t","o","p"," ","b","y"," ","f","r","e","q","u","e","n","c","y",")">>   \* "WinEventLog (top by frequency)"
              /\ win_susp[j].count = Occurrences(WinIds, win_susp[j].key)
              /\ win_susp[j].count >= 1
        /\ TopTen(win_susp, WinIds, {WinIds[i] : i \in 1..Len(WinIds)})
        /\ Descending(win_susp)

\* what C4 says, on the builds that import pandas before version 2
C4_FallbackRankingBeforePandas2 == pandas_major < 2 => C4_FallbackRanking

-----------------------------------------------------------------------------
\* Properties of suspicious_dns (checked under SpecDns).

\* the scorer has run on a table with rows and a query-name column
DnsScored ==
    /\ pc = "aggregate"
    /\ Len(heap[dns_df].rows) > 0
    /\ query_col(heap[dns_df]) # ""

RowsOfType(rows, type) == select_rows(rows, [j \in 1..Len(rows) |-> rows[j].type = type])

RareRows == RowsOfType(dns_susp, <<"D","N","S"," ","(","r","a","r","e"," ","d","o","m","a","i","n","s",")">>)   \* "DNS (rare domains)"
WeirdRows == RowsOfType(dns_susp, <<"D","N","S"," ","(","w","e","i","r","d"," ","s","u","b","d","o","m","a","i","n","s",")">>)   \* "DNS (weird subdomains)"

Domains == [i \in 1..Len(dns_work) |-> dns_work[i].domain]
Qnames == [i \in 1..Len(dns_work) |-> dns_work[i].qname]

IsRare(x) == Occurrences(Domains, x) <= 2

\* C5: every row of the rare-domain ranking has a domain that occurs at most
\* twice in the whole table and carries that number of occurrences as its
\* count; a domain that occurs three times is in no row; the ranking has at
\* most 10 rows, and a domain that occurs at most twice is left out only
\* when the ranking is full.
C5_RareRanking ==
    DnsScored =>
        /\ \A j \in 1..Len(RareRows) :
              /\ RareRows[j].count = Occurrences(Domains, RareRows[j].key)
              /\ RareRows[j].count \in {1, 2}
        /\ \A j, k \in 1..Len(RareRows) : RareRows[j].key = RareRows[k].key => j = k
        /\ TopTen(RareRows, Domains, {Domains[i] : i \in {k \in 1..Len(Domains) : IsRare(Domains[k])}})
        /\ Descending(RareRows)

\* a full ranking that holds a domain seen twice, beside a domain seen three
\* times and a rare domain that did not fit
C5_Witness ==
    /\ DnsScored
    /\ Len(RareRows) = 10
    /\ \E j \in 1..Len(RareRows) : RareRows[j].count = 2
    /\ \E i \in 1..Len(Domains) : Occurrences(Domains, Domains[i]) = 3
    /\ \E i \in 1..Len(Domains) :
          /\ IsRare(Domains[i])
          /\ \A j \in 1..Len(RareRows) : RareRows[j].key # Domains[i]

IsWeird(q) ==
    \/ Len(q) >= 40
    \/ Cardinality({i \in 1..Len(q) : q[i] = "."}) >= 5
    \/ Cardinality({i \in 1..Len(q) : q[i] \in {"0", "1", "2", "3", "4", "5", "6", "7", "8", "9"}}) >= 10

\* C6: every row of the weird-subdomain ranking has a query name of length
\* 40 or more, or with 5 or more dots, or with 10 or more digits, and its
\* count is the number of records with that name; the ranking has at most
\* 10 rows, and a name that meets one of the thresholds is left out only
\* when the ranking is full.
C6_WeirdRanking ==
    DnsScored =>
        /\ \A j \in 1..Len(WeirdRows) :
              /\ IsWeird(WeirdRows[j].key)
              /\ WeirdRows[j].count = Occurrences(Qnames, WeirdRows[j].key)
              /\ WeirdRows[j].count >= 1
        /\ \A j, k \in 1..Len(WeirdRows) : WeirdRows[j].key = WeirdRows[k].key => j = k
        /\ TopTen(WeirdRows, Qnames, {Qnames[i] : i \in {k \in 1..Len(Qnames) : IsWeird(Qnames[k])}})
        /\ Descending(WeirdRows)

\* the example of the specification is ranked, beside a name that meets no
\* threshold
C6_Witness ==
    /\ DnsScored
    /\ \E j \in 1..Len(WeirdRows) : WeirdRows[j].key = <<"a",".","b",".","c",".","d",".","e",".","f",".","e","x","a","m","p","l","e",".","c","o","m">>   \* "a.b.c.d.e.f.example.com"
    /\ \E i \in 1..Len(Qnames) : ~IsWeird(Qnames[i])

\* the text of the query-name cell of record i
QueryText(i) == TextOf(heap[dns_df].rows[i][query_col(heap[dns_df])])

\* the first substring of s made of one or more labels, a dot and a last
\* label of two or more letters, or s when there is none; trimmed, lowercased
FirstDomainShaped(s) ==
    lower(strip(fillna(leftmost(s, {<<i, match_end(s, i, 0)>> : i \in 1..Len(s)}), s)))

\* C9: the query name of every record is the first substring of its text
\* that has the shape label(.label)*.letters, trimmed and lowercased, and the
\* whole text, trimmed and lowercased, only when there is no such substring.
C9_QnameIsFirstDomainShapedSubstring ==
    DnsScored =>
        \A i \in 1..Len(dns_work) : dns_work[i].qname = FirstDomainShaped(QueryText(i))

\* the labels of q between its dots
LabelsOf(q) == split(q, ".")

\* C10 as claimed: the domain is the query name when the query name has at
\* most 2 labels, and its last two labels joined by a dot otherwise.
C10_DomainOfEveryQname ==
    DnsScored =>
        \A i \in 1..Len(dns_work) :
            dns_work[i].domain =
                IF Len(LabelsOf(dns_work[i].qname)) <= 2 THEN dns_work[i].qname
                ELSE join(SubSeq(LabelsOf(dns_work[i].qname),
                                 Len(LabelsOf(dns_work[i].qname)) - 1,
                                 Len(LabelsOf(dns_work[i].qname))), ".")

\* q without the dots at its two ends
Undotted(q) ==
    IF \A i \in 1..Len(q) : q[i] = "." THEN <<>>
    ELSE SubSeq(q, Min({i \in 1..Len(q) : q[i] # "."}), Max({i \in 1..Len(q) : q[i] # "."}))

DotCount(q) == Cardinality({i \in 1..Len(q) : q[i] = "."})

\* d is the part of t after its last dot but one
LastTwoLabels(d, t) ==
    /\ Len(d) < Len(t)
    /\ SubSeq(t, Len(t) - Len(d) + 1, Len(t)) = d
    /\ t[Len(t) - Len(d)] = "."
    /\ DotCount(d) = 1

\* C10 as amended: the domain is computed from the query name without the
\* dots at its ends: it is that text when it has at most 2 labels, and its
\* last two labels joined by a dot otherwise.
C10_DomainOfUndottedQname ==
    DnsScored =>
        \A i \in 1..Len(dns_work) :
            IF DotCount(Undotted(dns_work[i].qname)) <= 1
            THEN dns_work[i].domain = Undotted(dns_work[i].qname)
            ELSE LastTwoLabels(dns_work[i].domain, Undotted(dns_work[i].qname))

\* a name that ends in a dot keeps its two labels, beside the example of the
\* specification
C10_Witness ==
    /\ DnsScored
    /\ \E i \in 1..Len(dns_work) :
          /\ dns_work[i].qname = <<"e","x","a","m","p","l","e",".","c","o","m",".">>   \* "example.com."
          /\ dns_work[i].domain = <<"e","x","a","m","p","l","e",".","c","o","m">>   \* "example.com"
    /\ \E i \in 1..Len(dns_work) :
          /\ dns_work[i].qname = <<"a",".","b",".","c",".","d",".","e",".","f",".","e","x","a","m","p","l","e",".","c","o","m">>   \* "a.b.c.d.e.f.example.com"
          /\ dns_work[i].domain = <<"e","x","a","m","p","l","e",".","c","o","m">>   \* "example.com"

-----------------------------------------------------------------------------
\* Properties of the aggregation (checked under SpecAgg).

AggInput == win_susp \o dns_susp

RECURSIVE SumOver(_, _)
\* the sum of rows[i].count over the indices i of I
SumOver(rows, I) ==
    IF I = {} THEN 0
    ELSE LET i == CHOOSE i \in I : TRUE IN rows[i].count + SumOver(rows, I \ {i})

SamePair(r, q) == r.type = q.type /\ r.key = q.key

\* C7: the combined ranking has, for every (type, key) of the input, one
\* row and only one, whose count is the sum of the counts of the input rows
\* of that pair; it has no other row, the total of the counts is the total of
\* the input, and the rows are in descending order of count.
C7_CombinedRanking ==
    pc = "save_tables" =>
        /\ \A i \in 1..Len(AggInput) :
              \E j \in 1..Len(combined_top) :
                  /\ SamePair(combined_top[j], AggInput[i])
                  /\ combined_top[j].count =
                        SumOver(AggInput, {k \in 1..Len(AggInput) : SamePair(AggInput[k], AggInput[i])})
        /\ \A j \in 1..Len(combined_top) :
              \E i \in 1..Len(AggInput) : SamePair(combined_top[j], AggInput[i])
        /\ \A j, k \in 1..Len(combined_top) :
              SamePair(combined_top[j], combined_top[k]) => j = k
        /\ SumOver(combined_top, 1..Len(combined_top)) = SumOver(AggInput, 1..Len(AggInput))
        /\ Descending(combined_top)

\* the example of the specification
C7_Witness ==
    /\ pc = "save_tables"
    /\ AggInput = <<Row(<<"W","i","n","E","v","e","n","t","L","o","g">>, <<"X">>, 3),   \* "WinEventLog"
                    Row(<<"D","N","S"," ","(","r","a","r","e"," ","d","o","m","a","i","n","s",")">>, <<"Y">>, 2),   \* "DNS (rare domains)"
                    Row(<<"W","i","n","E","v","e","n","t","L","o","g">>, <<"X">>, 1)>>   \* "WinEventLog"
    /\ combined_top = <<Row(<<"W","i","n","E","v","e","n","t","L","o","g">>, <<"X">>, 4),   \* "WinEventLog"
                        Row(<<"D","N","S"," ","(","r","a","r","e"," ","d","o","m","a","i","n","s",")">>, <<"Y">>, 2)>>   \* "DNS (rare domains)"

====
